---- MODULE Spec2Model ----
(***************************************************************************)
(* Peer discovery, negotiation and polling transport of the LAN meeting    *)
(* client: useLocalNetwork (src/unnamed/part_001), LocalSignalingServer    *)
(* (src/unnamed/part_002) and WebRTCManager (src/src/utils/webrtc.ts).     *)
(*                                                                         *)
(* Peer ids are strings compared with JavaScript's > ; the model uses      *)
(* small naturals with the same strict total order.  A connection handle   *)
(* is the index of the RTCPeerConnection in conns[p], in creation order.   *)
(***************************************************************************)
EXTENDS Integers, Sequences, FiniteSets, Bags, TLC

\* ---------------------------------------------------------------- bounds
MaxDiscovery == 1
MaxEnvPosts == 2
MaxInflight == 2
MaxSessions == 2
MaxOutages == 1
MaxTexts == 1
MaxTime == 2
MaxEnvelopes == 2
MaxStarts == 2
MaxCandidates == 1

\* ------------------------------------------------------------- constants
Nodes == {1, 2}
Me == 2
Remotes == {1, 3}
Ids == Nodes \cup Remotes
Broadcast == 0
NoConn == 0
InitialCursor == -1

SignalTypes == {"peer-discovery", "offer", "answer", "ice-candidate"}

VARIABLES
    relay,          \* the relay's append-only log; message id = index - 1
    lastMessageId,  \* LocalSignalingServer.lastMessageId
    isClosed,       \* LocalSignalingServer.isClosed (pollInterval cleared with it)
    polls,          \* bag of cursors carried by the poll requests in flight
    replies,        \* bag of poll responses in flight: [lastId, upTo]
    delivered,      \* ids handed to the registered handler, in invocation order
    online,         \* the relay can be reached from this peer
    outages,        \* number of times the relay became unreachable
    errorLog,       \* cursors of the polls whose rejection pollMessages logged
    epoch,          \* number of effect set-ups so far (0: no handler registered)
    isActive,       \* isActive of the latest effect closure
    initializing,   \* initializingRef.current
    discoveryTimer, \* discoveryInterval is set
    peersRef,       \* peersRef of the latest effect closure: id -> handle
    pendingConnections, \* pendingConnections of the latest effect closure
    peers,          \* WebRTCManager.peers: id -> handle (NoConn: no entry)
    conns,          \* every RTCPeerConnection created so far
    tasks,          \* suspended handler continuations, in invocation order
    uiPeers,        \* last snapshot given to setPeers
    messages,       \* the chat messages given to setMessages, in order
    fileTransfers,  \* the records given to setFileTransfers, in order
    wire,           \* wire[y][x]: envelopes x's channel has sent, not yet received by y
    texts,          \* number of sendMessage() calls
    sends,          \* sends[x][y]: number of dataChannel.send() calls of x towards y
    media,          \* local media: startVideo's position, WebRTCManager.localStream,
                    \* the hook's localStream and isVideoEnabled, calls so far
    devices         \* which capture devices getUserMedia can open

transport == <<relay, lastMessageId, isClosed, polls, replies, delivered, online,
              outages, errorLog>>
session == <<epoch, isActive, initializing, discoveryTimer, peersRef, pendingConnections>>
manager == <<peers, conns, tasks, uiPeers, messages, fileTransfers, wire, texts, sends,
            media, devices>>
vars == <<relay, lastMessageId, isClosed, polls, replies, delivered, online, outages,
          errorLog, epoch, isActive,
          initializing, discoveryTimer, peersRef, pendingConnections, peers,
          conns, tasks, uiPeers, messages, fileTransfers, wire, texts, sends,
          media, devices>>

\* the roomId argument of useLocalNetwork: it is a dependency of the effect and
\* is handed to neither the transport nor the manager
Rooms == {"room-a", "room-b"}

\* ---------------------------------------------------------------- helpers
Max(a, b) == IF a >= b THEN a ELSE b

NoPeers == [x \in Ids |-> NoConn]

Msg(t, f, to) == [type |-> t, from |-> f, to |-> to]

MsgId(i) == i - 1

\* ------------------------------------------------- LocalSignalingServer
\* mutant: send() does not test the closed flag
SendEvenClosed(log, closed, p, t, to) == Append(log, Msg(t, p, to))

\* send(): stamps the sender and posts to the relay unless closed
Send(log, closed, p, t, to) ==
    IF closed THEN log ELSE Append(log, Msg(t, p, to))

\* The relay's GET, answered when the log held upTo messages: the ids above
\* lastId, addressed to p or broadcast, in log order
RECURSIVE BatchFrom(_, _, _, _, _)
BatchFrom(log, p, lastId, upTo, i) ==
    IF i > upTo THEN <<>>
    ELSE LET rest == BatchFrom(log, p, lastId, upTo, i + 1)
         IN IF MsgId(i) > lastId /\ log[i].to \in {Broadcast, p}
            THEN <<[id |-> MsgId(i), msg |-> log[i]]>> \o rest
            ELSE rest

Batch(log, p, r) == BatchFrom(log, p, r.lastId, r.upTo, 1)

\* ------------------------------------------------------- WebRTCManager
NewConnection(x) ==
    [peer |-> x, sig |-> "stable", local |-> FALSE, failed |-> FALSE, error |-> FALSE,
     open |-> FALSE, candidates |-> 0, tracks |-> {}, forward |-> 0, gathered |-> 0]

\* close() on a connection handle
CloseConn(cs, h) == [cs EXCEPT ![h].sig = "closed"]

\* connection.remoteDescription is set: a remote offer is pending, or the
\* negotiation has finished
HasRemoteDescription(c) == c.sig = "have-remote-offer" \/ (c.sig = "stable" /\ c.local)

\* negotiation finished: both descriptions set
Connected(c) == c.sig = "stable" /\ c.local

\* The local state of one peer, as the handlers see it
Local(p) ==
    [id |-> p, closed |-> isClosed[p], epoch |-> epoch[p], active |-> isActive[p],
     peersRef |-> peersRef[p], pending |-> pendingConnections[p],
     peers |-> peers[p], conns |-> conns[p], tasks |-> tasks[p],
     ui |-> uiPeers[p], cursor |-> lastMessageId[p], delivered |-> delivered[p],
     log |-> relay, initializing |-> initializing[p], timer |-> discoveryTimer[p],
     online |-> online[p], messages |-> messages[p],
     fileTransfers |-> fileTransfers[p], media |-> media[p]]

\* notifyPeerUpdate() -> the onPeerUpdate callback of the latest effect closure
NotifyPeerUpdate(ls) ==
    IF ls.epoch > 0 /\ ls.active
    THEN [ls EXCEPT !.ui = ls.peers,
                    !.peersRef = [x \in Ids |-> IF ls.peers[x] # NoConn
                                                THEN ls.peers[x]
                                                ELSE ls.peersRef[x]]]
    ELSE ls

\* the kinds of the tracks of a local stream
Kinds(stream) ==
    CASE stream = "video+audio" -> {"audio", "video"}
      [] stream = "audio" -> {"audio"}
      [] OTHER -> {}

\* createPeerConnection(peerId): a new connection with the tracks of the local
\* stream, if there is one, and a channel; peers.set, notify
CreatePeerConnection(ls, x) ==
    NotifyPeerUpdate([ls EXCEPT !.conns = Append(ls.conns,
                                    [NewConnection(x) EXCEPT
                                        !.tracks = Kinds(ls.media.stream)]),
                                !.peers[x] = Len(ls.conns) + 1])

\* mutant: removePeer notifies also when there is no entry
RemovePeerAlwaysNotify(ls, x) ==
    NotifyPeerUpdate(IF ls.peers[x] # NoConn
                     THEN [ls EXCEPT !.conns = CloseConn(ls.conns, ls.peers[x]),
                                     !.peers[x] = NoConn]
                     ELSE ls)

\* removePeer(peerId)
RemovePeer(ls, x) ==
    IF ls.peers[x] # NoConn
    THEN NotifyPeerUpdate([ls EXCEPT !.conns = CloseConn(ls.conns, ls.peers[x]),
                                     !.peers[x] = NoConn])
    ELSE ls

\* mutant: cleanup() clears the map without closing anything
CloseNone(cs, hs) == cs

\* WebRTCManager.cleanup(): close every registered connection, clear the map
RECURSIVE CloseAll(_, _)
CloseAll(cs, hs) ==
    IF hs = {} THEN cs
    ELSE LET h == CHOOSE k \in hs : TRUE
         IN CloseAll(CloseConn(cs, h), hs \ {h})

ManagerCleanup(ls) ==
    [ls EXCEPT !.conns = CloseAll(ls.conns, {ls.peers[x] : x \in Ids} \ {NoConn}),
               !.peers = NoPeers,
               !.media.stream = "none"]

\* --------------------------------------------------------- local media
\* no startVideo call yet: no stream, video and audio shown as enabled
NoMedia ==
    [pc |-> "idle", stream |-> "none", shown |-> "none", videoOn |-> TRUE,
     starts |-> 0, raised |-> FALSE]

\* getUserMedia({video, audio}) resolves if every requested kind can be opened
Acquires(d, video, audio) == (video => d.camera) /\ (audio => d.mic)

\* startVideo() up to its first await: initLocalStream(true, true)
StartVideoCall(m) == [m EXCEPT !.pc = "awaitVideo", !.starts = m.starts + 1]

\* startVideo() after initLocalStream(true, true): setLocalStream, or the
\* catch that calls initLocalStream(false, true)
AfterVideoRequest(m, d) ==
    IF Acquires(d, TRUE, TRUE)
    THEN [m EXCEPT !.stream = "video+audio", !.shown = "video+audio", !.pc = "idle"]
    ELSE [m EXCEPT !.pc = "awaitAudio"]

\* mutant: the audio-only attempt is not wrapped in its own try
AfterAudioRequestRaising(m, d) ==
    IF Acquires(d, FALSE, TRUE)
    THEN [m EXCEPT !.stream = "audio", !.shown = "audio", !.videoOn = FALSE,
                   !.pc = "idle"]
    ELSE [m EXCEPT !.pc = "idle", !.raised = TRUE]

\* startVideo() after initLocalStream(false, true): setLocalStream and
\* setIsVideoEnabled(false), or the inner catch that only logs
AfterAudioRequest(m, d) ==
    IF Acquires(d, FALSE, TRUE)
    THEN [m EXCEPT !.stream = "audio", !.shown = "audio", !.videoOn = FALSE,
                   !.pc = "idle"]
    ELSE [m EXCEPT !.pc = "idle"]

\* the getUserMedia call that startVideo() waits for resolves
Resolves(m, d) ==
    \/ m.pc = "awaitVideo" /\ Acquires(d, TRUE, TRUE)
    \/ m.pc = "awaitAudio" /\ Acquires(d, FALSE, TRUE)

\* initLocalStream after getUserMedia: every registered connection gets the
\* tracks of the new stream (replaceTrack on a sender of the kind, else addTrack)
AttachTracks(cs, reg, kinds) ==
    [h \in 1..Len(cs) |->
        IF \E x \in Ids : reg[x] = h
        THEN [cs[h] EXCEPT !.tracks = cs[h].tracks \cup kinds]
        ELSE cs[h]]

\* toggleVideo(): setIsVideoEnabled(!isVideoEnabled)
ToggledVideo(m) == [m EXCEPT !.videoOn = ~m.videoOn]

\* ------------------------------------------------- the data channel
Texts == {"hi"}

\* Date.now()
Times == 1..MaxTime

\* the name a peer announces in fromName
NameOf(x) == <<"user", x>>

\* JSON.stringify({type: 'text', content, timestamp})
Envelope(c, ts) == [type |-> "text", content |-> c, timestamp |-> ts]

\* the files a peer may announce
Files == {[id |-> "file-1", name |-> "a.txt", size |-> 3]}

\* JSON.stringify({type: 'file-meta', id, name, size})
FileMeta(f) == [type |-> "file-meta", id |-> f.id, name |-> f.name, size |-> f.size]

\* the Message object handed to onMessage
ChatMessage(x, c, ts) ==
    [peerId |-> x, peerName |-> NameOf(x), content |-> c, timestamp |-> ts,
     kind |-> "text"]

\* the FileTransfer object handed to onFileTransfer
FileTransfer(x, e) ==
    [id |-> e.id, name |-> e.name, size |-> e.size, progress |-> 0, peerId |-> x,
     peerName |-> NameOf(x)]

\* the hook's onMessage callback: setMessages(prev => [...prev, message])
OnMessage(ls, m) ==
    IF ls.epoch > 0 /\ ls.active
    THEN [ls EXCEPT !.messages = Append(ls.messages, m)]
    ELSE ls

\* the hook's onFileTransfer callback: setFileTransfers(prev => [...prev, transfer])
OnFileTransfer(ls, f) ==
    IF ls.epoch > 0 /\ ls.active
    THEN [ls EXCEPT !.fileTransfers = Append(ls.fileTransfers, f)]
    ELSE ls

\* mutant: the message carries the time of receipt, not the envelope's
OnChannelMessageRestamped(ls, x, e) ==
    CASE e.type = "text" -> OnMessage(ls, ChatMessage(x, e.content, 0))
      [] e.type = "file-meta" -> OnFileTransfer(ls, FileTransfer(x, e))
      [] OTHER -> ls

\* channel.onmessage on the channel of the connection created for x
OnChannelMessage(ls, x, e) ==
    CASE e.type = "text" -> OnMessage(ls, ChatMessage(x, e.content, e.timestamp))
      [] e.type = "file-meta" -> OnFileTransfer(ls, FileTransfer(x, e))
      [] OTHER -> ls

\* JSON.stringify(envelope): the string a channel carries
Stringify(e) == [kind |-> "object", value |-> e]

\* strings a channel may carry that no peer running this code sends: one that
\* JSON.parse rejects, and the JSON text null
Malformed == {[kind |-> "garbage"], [kind |-> "null"]}

\* mutant: the catch hands what it could not read to the message observer
OnChannelDataReported(ls, x, d) ==
    IF d.kind = "object"
    THEN OnChannelMessage(ls, x, d.value)
    ELSE OnMessage(ls, ChatMessage(x, d.kind, 0))

\* channel.onmessage: JSON.parse(event.data) and the test of data.type inside
\* try; a SyntaxError, or the TypeError of reading null.type, is caught and logged
OnChannelData(ls, x, d) ==
    IF d.kind = "object"
    THEN OnChannelMessage(ls, x, d.value)
    ELSE ls

\* peer.dataChannel?.readyState === 'open'
ChannelOpen(c) == c.open /\ c.sig # "closed"

\* ------------------------------------------- useLocalNetwork: the handler
Task(pc, from, h, ep) == [pc |-> pc, from |-> from, conn |-> h, ep |-> ep]

Spawn(ls, pc, from, h) == [ls EXCEPT !.tasks = Append(ls.tasks, Task(pc, from, h, ls.epoch))]

\* peerConnection.onicecandidate = ...: the callback of the closure of
\* session ep forwards the candidates of connection h (0: no callback)
InstallForwarding(ls, h, ep) == [ls EXCEPT !.conns[h].forward = ep]

\* mutant: the discovery branch without the id comparison
ShouldInitiateNoTieBreak(ls, from) ==
    /\ ls.peersRef[from] = NoConn
    /\ from \notin ls.pending

\* the tie-break of the peer-discovery branch
ShouldInitiate(ls, from) ==
    /\ ls.peersRef[from] = NoConn
    /\ from \notin ls.pending
    /\ ls.id > from

OnDiscovery(ls, from) ==
    IF ShouldInitiate(ls, from)
    THEN LET a == [ls EXCEPT !.pending = ls.pending \cup {from}]
             b == CreatePeerConnection(a, from)
             c == InstallForwarding(b, Len(b.conns), b.epoch)
         IN Spawn(c, "createOffer", from, Len(c.conns))
    ELSE ls

\* the offer branch accepts in these signaling states
OfferAccepted(c) == c.sig \in {"stable", "have-local-offer"}

OnOffer(ls, from) ==
    LET known == ls.peersRef[from] # NoConn
        a == IF known THEN ls ELSE CreatePeerConnection(ls, from)
        h == IF known THEN ls.peersRef[from] ELSE Len(a.conns)
    IN IF OfferAccepted(a.conns[h]) THEN Spawn(a, "setRemoteOffer", from, h) ELSE a

\* mutant: the answer branch without the signaling-state check
AnswerAcceptedAnyState(ls, from) == ls.peersRef[from] # NoConn

\* the answer branch applies only in have-local-offer
AnswerAccepted(ls, from) ==
    /\ ls.peersRef[from] # NoConn
    /\ ls.conns[ls.peersRef[from]].sig = "have-local-offer"

OnAnswer(ls, from) ==
    IF AnswerAccepted(ls, from)
    THEN Spawn(ls, "setRemoteAnswer", from, ls.peersRef[from])
    ELSE ls

\* the ice-candidate branch: addIceCandidate on the peer the closure knows
OnCandidate(ls, from) ==
    IF ls.peersRef[from] # NoConn
    THEN Spawn(ls, "addIceCandidate", from, ls.peersRef[from])
    ELSE ls

\* the handler up to its first suspension
OnSignal(ls, m) ==
    IF ~ls.active THEN ls
    ELSE CASE m.type = "peer-discovery" -> OnDiscovery(ls, m.from)
           [] m.type = "offer" -> OnOffer(ls, m.from)
           [] m.type = "answer" -> OnAnswer(ls, m.from)
           [] m.type = "ice-candidate" -> OnCandidate(ls, m.from)
           [] OTHER -> ls

\* mutant: the cursor follows the last id handled
NextCursorLatest(cur, id) == id

\* lastMessageId = Math.max(lastMessageId, msg.id)
NextCursor(cur, id) == Max(cur, id)

\* one iteration of pollMessages' forEach
Deliver(ls, e) ==
    LET a == [ls EXCEPT !.cursor = NextCursor(ls.cursor, e.id)]
    IN IF a.epoch > 0
       THEN OnSignal([a EXCEPT !.delivered = Append(a.delivered, e.id)], e.msg)
       ELSE a

\* mutant: the batch is walked from its last message to its first
RECURSIVE HandleBatchReversed(_, _)
HandleBatchReversed(ls, batch) ==
    IF batch = <<>> THEN ls
    ELSE Deliver(HandleBatchReversed(ls, Tail(batch)), Head(batch))

\* messages.forEach(...)
RECURSIVE HandleBatch(_, _)
HandleBatch(ls, batch) ==
    IF batch = <<>> THEN ls
    ELSE HandleBatch(Deliver(ls, Head(batch)), Tail(batch))

\* -------------------------------- the handler's continuations (after await)
Enqueue(ls, t, pc) == [ls EXCEPT !.tasks = Append(ls.tasks, [t EXCEPT !.pc = pc])]

\* signaling.send({type, to}) from a handler; when the relay cannot be
\* reached the fetch rejects, the rejection is logged and the message is lost
SendSignal(ls, t, to) ==
    IF ls.online THEN [ls EXCEPT !.log = Send(ls.log, ls.closed, ls.id, t, to)] ELSE ls

\* mutant: the pending set is never cleared
DeletePendingNever(ls, t) == ls

\* pendingConnections.delete(from) on the set of the closure that owns the task
DeletePending(ls, t) ==
    IF t.ep = ls.epoch THEN [ls EXCEPT !.pending = ls.pending \ {t.from}] ELSE ls

\* a catch block of the handler: the rejection is logged, the signal dropped
LogError(ls, t) == [ls EXCEPT !.conns[t.conn].error = TRUE]

\* await createOffer(): rejects on a closed connection (catch: pending.delete)
AfterCreateOffer(ls, t) ==
    IF ls.conns[t.conn].sig = "closed"
    THEN DeletePending(LogError(ls, t), t)
    ELSE Enqueue(ls, t, "setLocalOffer")

\* await setLocalDescription(offer), then signaling.send(offer)
AfterSetLocalOffer(ls, t) ==
    IF ls.conns[t.conn].sig \in {"stable", "have-local-offer"}
    THEN SendSignal([ls EXCEPT !.conns[t.conn].sig = "have-local-offer",
                               !.conns[t.conn].local = TRUE], "offer", t.from)
    ELSE DeletePending(LogError(ls, t), t)

\* await setRemoteDescription(offer), then createAnswer() is invoked.
\* In have-local-offer the browser either rolls the local offer back or rejects.
AfterSetRemoteOffer(ls, t, rollback) ==
    LET sig == ls.conns[t.conn].sig
    IN IF sig = "stable" \/ (sig = "have-local-offer" /\ rollback)
       THEN Enqueue([ls EXCEPT !.conns[t.conn].sig = "have-remote-offer"], t, "createAnswer")
       ELSE LogError(ls, t)

\* await createAnswer(), then setLocalDescription(answer) is invoked
AfterCreateAnswer(ls, t) ==
    IF ls.conns[t.conn].sig = "have-remote-offer"
    THEN Enqueue(ls, t, "setLocalAnswer")
    ELSE LogError(ls, t)

\* await setLocalDescription(answer), then signaling.send(answer)
AfterSetLocalAnswer(ls, t) ==
    IF ls.conns[t.conn].sig = "have-remote-offer"
    THEN InstallForwarding(
             SendSignal([ls EXCEPT !.conns[t.conn].sig = "stable",
                                   !.conns[t.conn].local = TRUE], "answer", t.from),
             t.conn, t.ep)
    ELSE LogError(ls, t)

\* mutant: the answer is applied but the peer stays pending
AfterSetRemoteAnswerKeepPending(ls, t) ==
    IF ls.conns[t.conn].sig = "have-local-offer"
    THEN [ls EXCEPT !.conns[t.conn].sig = "stable"]
    ELSE LogError(ls, t)

\* await setRemoteDescription(answer), then pendingConnections.delete(from)
AfterSetRemoteAnswer(ls, t) ==
    IF ls.conns[t.conn].sig = "have-local-offer"
    THEN DeletePending([ls EXCEPT !.conns[t.conn].sig = "stable"], t)
    ELSE LogError(ls, t)

\* await addIceCandidate(candidate): rejects on a closed connection and on
\* one without a remote description (catch: logged)
AfterAddIceCandidate(ls, t) ==
    IF HasRemoteDescription(ls.conns[t.conn])
    THEN [ls EXCEPT !.conns[t.conn].candidates = @ + 1]
    ELSE LogError(ls, t)

RemoveAt(seq, i) == SubSeq(seq, 1, i - 1) \o SubSeq(seq, i + 1, Len(seq))

\* operations on one connection complete in the order they were invoked
Resumable(ts, i) == \A j \in 1..(i - 1) : ts[j].conn # ts[i].conn

Continue(ls, i, rollback) ==
    LET t == ls.tasks[i]
        a == [ls EXCEPT !.tasks = RemoveAt(ls.tasks, i)]
    IN CASE t.pc = "createOffer" -> AfterCreateOffer(a, t)
         [] t.pc = "setLocalOffer" -> AfterSetLocalOffer(a, t)
         [] t.pc = "setRemoteOffer" -> AfterSetRemoteOffer(a, t, rollback)
         [] t.pc = "createAnswer" -> AfterCreateAnswer(a, t)
         [] t.pc = "setLocalAnswer" -> AfterSetLocalAnswer(a, t)
         [] t.pc = "setRemoteAnswer" -> AfterSetRemoteAnswer(a, t)
         [] t.pc = "addIceCandidate" -> AfterAddIceCandidate(a, t)

\* ------------------------------------------------------------- actions
Store(p, ls) ==
    /\ relay' = ls.log
    /\ lastMessageId' = [lastMessageId EXCEPT ![p] = ls.cursor]
    /\ isClosed' = [isClosed EXCEPT ![p] = ls.closed]
    /\ delivered' = [delivered EXCEPT ![p] = ls.delivered]
    /\ UNCHANGED <<online, outages, errorLog>>
    /\ epoch' = [epoch EXCEPT ![p] = ls.epoch]
    /\ isActive' = [isActive EXCEPT ![p] = ls.active]
    /\ initializing' = [initializing EXCEPT ![p] = ls.initializing]
    /\ discoveryTimer' = [discoveryTimer EXCEPT ![p] = ls.timer]
    /\ peersRef' = [peersRef EXCEPT ![p] = ls.peersRef]
    /\ pendingConnections' = [pendingConnections EXCEPT ![p] = ls.pending]
    /\ peers' = [peers EXCEPT ![p] = ls.peers]
    /\ conns' = [conns EXCEPT ![p] = ls.conns]
    /\ tasks' = [tasks EXCEPT ![p] = ls.tasks]
    /\ uiPeers' = [uiPeers EXCEPT ![p] = ls.ui]
    /\ messages' = [messages EXCEPT ![p] = ls.messages]
    /\ fileTransfers' = [fileTransfers EXCEPT ![p] = ls.fileTransfers]
    /\ media' = [media EXCEPT ![p] = ls.media]
    /\ devices' = devices

\* peer-discovery broadcasts p has posted
Discoveries(p) ==
    Cardinality({i \in 1..Len(relay) :
                    relay[i].type = "peer-discovery" /\ relay[i].from = p})

\* mutant: the session starts without its first broadcast
SetupSessionSilent(ls) ==
    [ls EXCEPT !.initializing = TRUE, !.active = TRUE,
               !.epoch = ls.epoch + 1, !.peersRef = NoPeers,
               !.pending = {}, !.timer = TRUE]

\* the effect body: a fresh closure, callbacks registered, first broadcast
SetupSession(ls) ==
    SendSignal([ls EXCEPT !.initializing = TRUE, !.active = TRUE,
                          !.epoch = ls.epoch + 1, !.peersRef = NoPeers,
                          !.pending = {}, !.timer = TRUE],
               "peer-discovery", Broadcast)

EffectSetup(p) ==
    /\ ~initializing[p]
    /\ epoch[p] < MaxSessions
    /\ UNCHANGED <<polls, replies, wire, texts, sends>>
    /\ Store(p, SetupSession(Local(p)))

\* the effect's returned teardown
TeardownSession(ls) == [ls EXCEPT !.active = FALSE, !.initializing = FALSE, !.timer = FALSE]

EffectTeardown(p) ==
    /\ epoch[p] > 0
    /\ isActive[p]
    /\ UNCHANGED <<polls, replies, wire, texts, sends>>
    /\ Store(p, TeardownSession(Local(p)))

\* the discovery interval's callback
DiscoveryBroadcast(ls) ==
    IF ls.active THEN SendSignal(ls, "peer-discovery", Broadcast) ELSE ls

DiscoveryTick(p) ==
    /\ discoveryTimer[p]
    /\ Discoveries(p) < epoch[p] + MaxDiscovery
    /\ UNCHANGED <<polls, replies, wire, texts, sends>>
    /\ Store(p, DiscoveryBroadcast(Local(p)))

\* the poll interval's callback: pollMessages() up to its fetch
InFlight(p) == BagCardinality(polls[p]) + BagCardinality(replies[p])

PollTick(p) ==
    /\ ~isClosed[p]
    /\ InFlight(p) < MaxInflight
    /\ polls' = [polls EXCEPT ![p] = polls[p] (+) SetToBag({lastMessageId[p]})]
    /\ UNCHANGED <<relay, lastMessageId, isClosed, replies, delivered, online, outages,
                   errorLog, session, manager>>

\* the relay answers a poll request from its log as it is now
RelayReply(p, lastId) ==
    /\ BagIn(lastId, polls[p])
    /\ polls' = [polls EXCEPT ![p] = polls[p] (-) SetToBag({lastId})]
    /\ replies' = [replies EXCEPT ![p] = replies[p] (+)
                       SetToBag({[lastId |-> lastId, upTo |-> Len(relay)]})]
    /\ UNCHANGED <<relay, lastMessageId, isClosed, delivered, online, outages, errorLog,
                   session, manager>>

\* pollMessages() after its fetch: the forEach over the response
PollResponse(p, r) ==
    /\ BagIn(r, replies[p])
    /\ replies' = [replies EXCEPT ![p] = replies[p] (-) SetToBag({r})]
    /\ polls' = polls
    /\ UNCHANGED <<wire, texts, sends>>
    /\ Store(p, HandleBatch(Local(p), Batch(relay, p, r)))

\* the relay answers and the response is handled with no other event between
PollReturn(p, lastId) ==
    /\ BagIn(lastId, polls[p])
    /\ polls' = [polls EXCEPT ![p] = polls[p] (-) SetToBag({lastId})]
    /\ replies' = replies
    /\ UNCHANGED <<wire, texts, sends>>
    /\ Store(p, HandleBatch(Local(p),
                            Batch(relay, p, [lastId |-> lastId, upTo |-> Len(relay)])))

\* mutant: a failed poll moves the cursor to the newest message
PollFailSkipping(p, lastId) ==
    /\ BagIn(lastId, polls[p])
    /\ polls' = [polls EXCEPT ![p] = polls[p] (-) SetToBag({lastId})]
    /\ lastMessageId' = [lastMessageId EXCEPT ![p] = MsgId(Len(relay))]
    /\ UNCHANGED <<relay, isClosed, replies, delivered, online, outages,
                   errorLog, session, manager>>

\* the response is not ok: nothing is handled, nothing is logged
PollFail(p, lastId) ==
    /\ BagIn(lastId, polls[p])
    /\ polls' = [polls EXCEPT ![p] = polls[p] (-) SetToBag({lastId})]
    /\ UNCHANGED <<relay, lastMessageId, isClosed, replies, delivered, online, outages,
                   errorLog, session, manager>>

\* the fetch rejects because the relay cannot be reached: the catch logs it
PollError(p, lastId) ==
    /\ ~online[p]
    /\ BagIn(lastId, polls[p])
    /\ polls' = [polls EXCEPT ![p] = polls[p] (-) SetToBag({lastId})]
    /\ errorLog' = [errorLog EXCEPT ![p] = errorLog[p] \cup {lastId}]
    /\ UNCHANGED <<relay, lastMessageId, isClosed, replies, delivered, online, outages,
                   session, manager>>

\* a browser promise of a suspended handler settles
Resume(p, i) ==
    /\ i \in 1..Len(tasks[p])
    /\ Resumable(tasks[p], i)
    /\ UNCHANGED <<polls, replies, wire, texts, sends>>
    /\ \E rollback \in BOOLEAN : Store(p, Continue(Local(p), i, rollback))

\* onconnectionstatechange with failed / disconnected
ConnectionLost(ls, h) ==
    RemovePeer([ls EXCEPT !.conns[h].failed = TRUE], ls.conns[h].peer)

ConnectionStateChange(p, h) ==
    /\ h \in 1..Len(conns[p])
    /\ conns[p][h].local
    /\ conns[p][h].sig # "closed"
    /\ ~conns[p][h].failed
    /\ UNCHANGED <<polls, replies, wire, texts, sends>>
    /\ Store(p, ConnectionLost(Local(p), h))

\* the browser gathers for connection h once a local description has been
\* applied; the promise of a setLocalDescription call under way may not have
\* been continued yet when the first candidate is surfaced
Gathering(ls, h) ==
    /\ ls.conns[h].sig # "closed"
    /\ \/ ls.conns[h].local
       \/ \E i \in 1..Len(ls.tasks) :
             /\ ls.tasks[i].conn = h
             /\ ls.tasks[i].pc \in {"setLocalOffer", "setLocalAnswer"}
             /\ Resumable(ls.tasks, i)

\* the icecandidate event of connection h: the installed callback, if any,
\* sends the candidate while its closure is active
OnIceCandidate(ls, h) ==
    LET a == [ls EXCEPT !.conns[h].gathered = @ + 1]
    IN IF ls.conns[h].forward = ls.epoch /\ ls.active
       THEN SendSignal(a, "ice-candidate", ls.conns[h].peer)
       ELSE a

IceCandidate(p, h) ==
    /\ h \in 1..Len(conns[p])
    /\ Gathering(Local(p), h)
    /\ conns[p][h].gathered < MaxCandidates
    /\ UNCHANGED <<polls, replies, wire, texts, sends>>
    /\ Store(p, OnIceCandidate(Local(p), h))

\* the hook's cleanup(): webrtc.cleanup(), signaling.close()
HookCleanup(ls) == [ManagerCleanup(ls) EXCEPT !.closed = TRUE]

Cleanup(p) ==
    /\ epoch[p] > 0
    /\ UNCHANGED <<polls, replies, wire, texts, sends>>
    /\ Store(p, HookCleanup(Local(p)))

\* a remote peer that is not modelled posts a signal to the relay
EnvMessages ==
    {Msg("peer-discovery", r, Broadcast) : r \in Remotes}
    \cup {Msg(t, r, Me) : t \in SignalTypes \ {"peer-discovery"}, r \in Remotes}

EnvPosts == Cardinality({i \in 1..Len(relay) : relay[i].from # Me})

EnvPost(m) ==
    /\ EnvPosts < MaxEnvPosts
    /\ relay' = Append(relay, m)
    /\ UNCHANGED <<lastMessageId, isClosed, polls, replies, delivered, online, outages,
                   errorLog, session, manager>>

\* mutant: the fan-out does not test readyState
OpenPeersAll(p) == {x \in Ids : peers[p][x] # NoConn}

\* the registered peers whose channel is open
OpenPeers(p) == {x \in Ids : peers[p][x] # NoConn /\ ChannelOpen(conns[p][peers[p][x]])}

\* WebRTCManager.sendMessage(content) called at time ts: fan-out, then the
\* local echo
SendMessage(p, c, ts) ==
    /\ epoch[p] > 0
    /\ texts[p] < MaxTexts
    /\ texts' = [texts EXCEPT ![p] = texts[p] + 1]
    /\ sends' = [sends EXCEPT ![p] = [x \in Ids |-> IF x \in OpenPeers(p)
                                                     THEN sends[p][x] + 1
                                                     ELSE sends[p][x]]]
    /\ wire' = [y \in Ids |->
                   IF y \in OpenPeers(p)
                   THEN [wire[y] EXCEPT ![p] = Append(wire[y][p],
                                                      Stringify(Envelope(c, ts)))]
                   ELSE wire[y]]
    /\ UNCHANGED <<polls, replies>>
    /\ Store(p, OnMessage(Local(p), ChatMessage(p, c, ts)))

\* the message event of the channel q shares with x
ChannelReceive(q, x) ==
    /\ wire[q][x] # <<>>
    /\ wire' = [wire EXCEPT ![q][x] = Tail(wire[q][x])]
    /\ UNCHANGED <<polls, replies, texts, sends>>
    /\ Store(q, OnChannelData(Local(q), x, Head(wire[q][x])))

\* the browser opens the channel once both ends hold both descriptions
ChannelOpens(p, h) ==
    /\ h \in 1..Len(conns[p])
    /\ ~conns[p][h].open
    /\ Connected(conns[p][h])
    /\ conns[p][h].peer \in Nodes
    /\ \E g \in 1..Len(conns[conns[p][h].peer]) :
          /\ conns[conns[p][h].peer][g].peer = p
          /\ Connected(conns[conns[p][h].peer][g])
    /\ conns' = [conns EXCEPT ![p][h].open = TRUE]
    /\ UNCHANGED <<transport, session, peers, tasks, uiPeers, messages, fileTransfers,
                   wire, texts, sends, media, devices>>

Init ==
    /\ relay = <<>>
    /\ lastMessageId = [p \in Nodes |-> InitialCursor]
    /\ isClosed = [p \in Nodes |-> FALSE]
    /\ polls = [p \in Nodes |-> EmptyBag]
    /\ replies = [p \in Nodes |-> EmptyBag]
    /\ delivered = [p \in Nodes |-> <<>>]
    /\ online = [p \in Nodes |-> TRUE]
    /\ outages = [p \in Nodes |-> 0]
    /\ errorLog = [p \in Nodes |-> {}]
    /\ epoch = [p \in Nodes |-> 0]
    /\ isActive = [p \in Nodes |-> FALSE]
    /\ initializing = [p \in Nodes |-> FALSE]
    /\ discoveryTimer = [p \in Nodes |-> FALSE]
    /\ peersRef = [p \in Nodes |-> NoPeers]
    /\ pendingConnections = [p \in Nodes |-> {}]
    /\ peers = [p \in Nodes |-> NoPeers]
    /\ conns = [p \in Nodes |-> <<>>]
    /\ tasks = [p \in Nodes |-> <<>>]
    /\ uiPeers = [p \in Nodes |-> NoPeers]
    /\ messages = [p \in Nodes |-> <<>>]
    /\ fileTransfers = [p \in Nodes |-> <<>>]
    /\ media = [p \in Nodes |-> NoMedia]
    /\ devices = [camera |-> TRUE, mic |-> TRUE]
    /\ wire = [y \in Ids |-> [x \in Ids |-> <<>>]]
    /\ texts = [p \in Nodes |-> 0]
    /\ sends = [y \in Ids |-> [x \in Ids |-> 0]]

\* the relay becomes unreachable from p, and reachable again
Disconnect(p) ==
    /\ online[p]
    /\ outages[p] < MaxOutages
    /\ online' = [online EXCEPT ![p] = FALSE]
    /\ outages' = [outages EXCEPT ![p] = outages[p] + 1]
    /\ UNCHANGED <<relay, lastMessageId, isClosed, polls, replies, delivered, errorLog,
                   session, manager>>

Reconnect(p) ==
    /\ ~online[p]
    /\ online' = [online EXCEPT ![p] = TRUE]
    /\ UNCHANGED <<relay, lastMessageId, isClosed, polls, replies, delivered, outages,
                   errorLog, session, manager>>

\* the first mount of the component
FirstSetup(p) == epoch[p] = 0 /\ EffectSetup(p)

\* a poll tick when the previous fetch has settled (latency below the period)
SerialPollTick(p) == InFlight(p) = 0 /\ PollTick(p)

NegotiationMessages ==
    {m \in EnvMessages : m.type \in {"peer-discovery", "offer", "answer"}}

\* One peer, one session, against arbitrary remote signals
Next ==
    \/ FirstSetup(Me)
    \/ EffectTeardown(Me)
    \/ SerialPollTick(Me)
    \/ \E l \in BagToSet(polls[Me]) : PollReturn(Me, l)
    \/ \E l \in BagToSet(polls[Me]) : PollFail(Me, l)
    \/ \E i \in 1..Len(tasks[Me]) : Resume(Me, i)
    \/ \E h \in 1..Len(conns[Me]) : ConnectionStateChange(Me, h)
    \/ Cleanup(Me)
    \/ \E m \in NegotiationMessages : EnvPost(m)

Spec == Init /\ [][Next]_vars

\* One peer whose effect is torn down and set up again on the same manager
NextRestart ==
    \/ EffectSetup(Me)
    \/ EffectTeardown(Me)
    \/ SerialPollTick(Me)
    \/ \E l \in BagToSet(polls[Me]) : PollReturn(Me, l)
    \/ \E i \in 1..Len(tasks[Me]) : Resume(Me, i)
    \/ \E h \in 1..Len(conns[Me]) : ConnectionStateChange(Me, h)
    \/ \E m \in NegotiationMessages : EnvPost(m)

SpecRestart == Init /\ [][NextRestart]_vars

\* The transport with overlapping polls; handler continuations not scheduled
TransportMessages ==
    {m \in EnvMessages : m.type = "ice-candidate" /\ m.from < Me}

NextTransport ==
    \/ FirstSetup(Me)
    \/ PollTick(Me)
    \/ \E l \in BagToSet(polls[Me]) : RelayReply(Me, l)
    \/ \E r \in BagToSet(replies[Me]) : PollResponse(Me, r)
    \/ \E l \in BagToSet(polls[Me]) : PollFail(Me, l)
    \/ \E m \in TransportMessages : EnvPost(m)

SpecTransport == Init /\ [][NextTransport]_vars

\* Two peers running the same code, no other participant
PairStep(p) ==
    \/ FirstSetup(p)
    \/ DiscoveryTick(p)
    \/ SerialPollTick(p)
    \/ \E l \in BagToSet(polls[p]) : PollReturn(p, l)
    \/ \E l \in BagToSet(polls[p]) : PollFail(p, l)
    \/ \E i \in 1..Len(tasks[p]) : Resume(p, i)
    \/ \E h \in 1..Len(conns[p]) : ConnectionStateChange(p, h)

NextPair == \E p \in Nodes : PairStep(p)

SpecPair == Init /\ [][NextPair]_vars

\* a response arrives only while the relay can be reached
OnlinePollReturn(p, lastId) == online[p] /\ PollReturn(p, lastId)

\* remote 1 announces itself and answers
OutageMessages ==
    {m \in EnvMessages : m.from = 1 /\ m.type \in {"peer-discovery", "answer"}}

\* One peer, one session, with a relay that is unreachable for a while
NextOutage ==
    \/ FirstSetup(Me)
    \/ DiscoveryTick(Me)
    \/ SerialPollTick(Me)
    \/ \E l \in BagToSet(polls[Me]) : OnlinePollReturn(Me, l)
    \/ \E l \in BagToSet(polls[Me]) : PollFail(Me, l)
    \/ \E l \in BagToSet(polls[Me]) : PollError(Me, l)
    \/ \E i \in 1..Len(tasks[Me]) : Resume(Me, i)
    \/ Disconnect(Me)
    \/ Reconnect(Me)
    \/ \E m \in OutageMessages : EnvPost(m)

\* timers keep firing, fetches and browser promises settle, connectivity returns;
\* a fetch that stays answerable (the relay is reachable) is answered
FairOutage ==
    /\ WF_vars(FirstSetup(Me))
    /\ WF_vars(DiscoveryTick(Me))
    /\ WF_vars(SerialPollTick(Me))
    /\ <>[](online[Me] /\ polls[Me] # EmptyBag)
          => []<><<\E l \in BagToSet(polls[Me]) : OnlinePollReturn(Me, l)>>_vars
    /\ WF_vars(\E i \in 1..Len(tasks[Me]) : Resume(Me, i))
    /\ WF_vars(Reconnect(Me))

SpecOutage == Init /\ [][NextOutage]_vars /\ FairOutage

\* the browser opens the channel to a remote peer that is not modelled
ChannelOpensRemote(p, h) ==
    /\ h \in 1..Len(conns[p])
    /\ ~conns[p][h].open
    /\ Connected(conns[p][h])
    /\ conns[p][h].peer \notin Nodes \ {p}
    /\ conns' = [conns EXCEPT ![p][h].open = TRUE]
    /\ UNCHANGED <<transport, session, peers, tasks, uiPeers, messages, fileTransfers,
                   wire, texts, sends, media, devices>>

\* what a remote peer may put on its channel
RemoteEnvelopes ==
    {Stringify(Envelope(c, ts)) : c \in Texts, ts \in Times}
    \cup {Stringify(FileMeta(f)) : f \in Files}
    \cup {Stringify([type |-> "file-chunk"])}

EnvelopesSent == sends[1][Me] + sends[3][Me]

\* a remote peer that is not modelled sends on its open channel to Me
RemoteSend(x, e) ==
    /\ x \in OpenPeers(Me)
    /\ EnvelopesSent < MaxEnvelopes
    /\ sends' = [sends EXCEPT ![x][Me] = sends[x][Me] + 1]
    /\ wire' = [wire EXCEPT ![Me][x] = Append(wire[Me][x], e)]
    /\ UNCHANGED <<transport, session, peers, conns, tasks, uiPeers, messages,
                   fileTransfers, texts, media, devices>>

ChannelOffers == {m \in EnvMessages : m.type = "offer"}

\* One peer and the data channels to two remote peers
NextChannel ==
    \/ FirstSetup(Me)
    \/ EffectTeardown(Me)
    \/ SerialPollTick(Me)
    \/ \E l \in BagToSet(polls[Me]) : PollReturn(Me, l)
    \/ \E i \in 1..Len(tasks[Me]) : Resume(Me, i)
    \/ \E h \in 1..Len(conns[Me]) : ConnectionStateChange(Me, h)
    \/ \E h \in 1..Len(conns[Me]) : ChannelOpensRemote(Me, h)
    \/ \E c \in Texts, ts \in Times : SendMessage(Me, c, ts)
    \/ \E x \in Remotes, e \in RemoteEnvelopes : RemoteSend(x, e)
    \/ \E x \in Remotes : ChannelReceive(Me, x)
    \/ \E m \in ChannelOffers : EnvPost(m)

SpecChannel == Init /\ [][NextChannel]_vars

\* MeetingRoom's effect calls startVideo()
StartVideo(p) ==
    /\ media[p].pc = "idle"
    /\ media[p].starts < MaxStarts
    /\ media' = [media EXCEPT ![p] = StartVideoCall(media[p])]
    /\ UNCHANGED <<transport, session, peers, conns, tasks, uiPeers, messages,
                   fileTransfers, wire, texts, sends, devices>>

\* the getUserMedia promise startVideo() waits for settles
MediaSettles(p) ==
    /\ media[p].pc # "idle"
    /\ media' = [media EXCEPT ![p] = IF media[p].pc = "awaitVideo"
                                     THEN AfterVideoRequest(media[p], devices)
                                     ELSE AfterAudioRequest(media[p], devices)]
    /\ conns' = [conns EXCEPT ![p] = IF Resolves(media[p], devices)
                                     THEN AttachTracks(conns[p], peers[p],
                                                       Kinds(media'[p].stream))
                                     ELSE conns[p]]
    /\ UNCHANGED <<transport, session, peers, tasks, uiPeers, messages,
                   fileTransfers, wire, texts, sends, devices>>

ToggleVideo(p) ==
    /\ media' = [media EXCEPT ![p] = ToggledVideo(media[p])]
    /\ UNCHANGED <<transport, session, peers, conns, tasks, uiPeers, messages,
                   fileTransfers, wire, texts, sends, devices>>

\* a capture device is plugged in or removed, or its permission changes
DeviceChange(d) ==
    /\ d # devices
    /\ devices' = d
    /\ UNCHANGED <<transport, session, peers, conns, tasks, uiPeers, messages,
                   fileTransfers, wire, texts, sends, media>>

\* One peer's session controller: sessions started and ended, the discovery
\* and poll timers, local media, cleanup(); no remote peer
NextController ==
    \/ EffectSetup(Me)
    \/ EffectTeardown(Me)
    \/ DiscoveryTick(Me)
    \/ SerialPollTick(Me)
    \/ \E l \in BagToSet(polls[Me]) : PollReturn(Me, l)
    \/ StartVideo(Me)
    \/ MediaSettles(Me)
    \/ ToggleVideo(Me)
    \/ Cleanup(Me)
    \/ \E d \in [camera : BOOLEAN, mic : BOOLEAN] : DeviceChange(d)

SpecController == Init /\ [][NextController]_vars

\* remote 3 negotiates and trickles its candidates
CandidateMessages == {m \in EnvMessages : m.from = 3}

\* One peer, its sessions and cleanup(), against every signal of one remote
\* peer and the channel to it
NextCandidates ==
    \/ EffectSetup(Me)
    \/ EffectTeardown(Me)
    \/ SerialPollTick(Me)
    \/ \E l \in BagToSet(polls[Me]) : PollReturn(Me, l)
    \/ \E i \in 1..Len(tasks[Me]) : Resume(Me, i)
    \/ \E h \in 1..Len(conns[Me]) : ConnectionStateChange(Me, h)
    \/ \E h \in 1..Len(conns[Me]) : ChannelOpensRemote(Me, h)
    \/ Cleanup(Me)
    \/ \E m \in CandidateMessages : EnvPost(m)

SpecCandidates == Init /\ [][NextCandidates]_vars

\* the signals of remote 3, which offers to peer 2
JoinMessages == {m \in EnvMessages : m.from = 3 /\ m.type \in {"peer-discovery", "offer"}}

\* One peer joining a room: the session starts, MeetingRoom starts the video,
\* and a remote peer negotiates in the meantime
NextJoin ==
    \/ FirstSetup(Me)
    \/ StartVideo(Me)
    \/ MediaSettles(Me)
    \/ SerialPollTick(Me)
    \/ \E l \in BagToSet(polls[Me]) : PollReturn(Me, l)
    \/ \E i \in 1..Len(tasks[Me]) : Resume(Me, i)
    \/ \E m \in JoinMessages : EnvPost(m)

SpecJoin == Init /\ [][NextJoin]_vars

\* remote 1 announces itself and answers
AnswerMessages == {m \in EnvMessages : m.from = 1 /\ m.type \in {"peer-discovery", "answer"}}

\* One initiating peer whose polls overlap, with its handler continuations
NextAnswer ==
    \/ FirstSetup(Me)
    \/ PollTick(Me)
    \/ \E l \in BagToSet(polls[Me]) : PollReturn(Me, l)
    \/ \E i \in 1..Len(tasks[Me]) : Resume(Me, i)
    \/ \E m \in AnswerMessages : EnvPost(m)

SpecAnswer == Init /\ [][NextAnswer]_vars

\* remote 1 announces itself and remote 3 offers
IceMessages ==
    {m \in EnvMessages : (m.from = 1 /\ m.type = "peer-discovery")
                             \/ (m.from = 3 /\ m.type = "offer")}

\* One peer that initiates towards one remote peer and answers another,
\* with the candidates its connections gather
NextIce ==
    \/ FirstSetup(Me)
    \/ EffectTeardown(Me)
    \/ SerialPollTick(Me)
    \/ \E l \in BagToSet(polls[Me]) : PollReturn(Me, l)
    \/ \E i \in 1..Len(tasks[Me]) : Resume(Me, i)
    \/ \E h \in 1..Len(conns[Me]) : IceCandidate(Me, h)
    \/ \E m \in IceMessages : EnvPost(m)

SpecIce == Init /\ [][NextIce]_vars

\* everything the channel of a remote peer may deliver
RemotePayloads == RemoteEnvelopes \cup Malformed

\* One peer and the channel to remote 3, which may send anything
NextPayload ==
    \/ FirstSetup(Me)
    \/ EffectTeardown(Me)
    \/ SerialPollTick(Me)
    \/ \E l \in BagToSet(polls[Me]) : PollReturn(Me, l)
    \/ \E i \in 1..Len(tasks[Me]) : Resume(Me, i)
    \/ \E h \in 1..Len(conns[Me]) : ChannelOpensRemote(Me, h)
    \/ \E d \in RemotePayloads : RemoteSend(3, d)
    \/ ChannelReceive(Me, 3)
    \/ \E m \in {Msg("offer", 3, Me)} : EnvPost(m)

SpecPayload == Init /\ [][NextPayload]_vars

\* negotiation with x has finished at p
ConnectedTo(p, x) == peers[p][x] # NoConn /\ Connected(conns[p][peers[p][x]])

BothConnected == ConnectedTo(1, 2) /\ ConnectedTo(2, 1)

Mounted == \A q \in Nodes : epoch[q] > 0

\* The discovery interval fires for ever; of its ticks the model keeps
\* MaxDiscovery per peer, taken after every peer has mounted
LateDiscoveryTick(p) == Mounted /\ DiscoveryTick(p)

\* the user of peer p sends a text once the negotiation has finished
SendText(p, c) == BothConnected /\ \E ts \in Times : SendMessage(p, c, ts)

\* Two peers joining a room: negotiation, chat, connections that may be lost
ChatStep(p) ==
    \/ FirstSetup(p)
    \/ LateDiscoveryTick(p)
    \/ SerialPollTick(p)
    \/ \E l \in BagToSet(polls[p]) : PollReturn(p, l)
    \/ \E i \in 1..Len(tasks[p]) : Resume(p, i)
    \/ \E h \in 1..Len(conns[p]) : ChannelOpens(p, h)
    \/ \E x \in Nodes : ChannelReceive(p, x)
    \/ \E h \in 1..Len(conns[p]) : ConnectionStateChange(p, h)

NextChat ==
    \/ \E p \in Nodes : ChatStep(p)
    \/ \E c \in Texts : SendText(1, c)

\* timers keep firing, fetches and browser promises settle, channels open and
\* deliver; the user is not obliged to send, a connection is not obliged to fail
FairChat ==
    \A p \in Nodes :
        /\ WF_vars(FirstSetup(p))
        /\ WF_vars(LateDiscoveryTick(p))
        /\ WF_vars(SerialPollTick(p))
        /\ <>[](polls[p] # EmptyBag)
              => []<><<\E l \in BagToSet(polls[p]) : PollReturn(p, l)>>_vars
        /\ WF_vars(\E i \in 1..Len(tasks[p]) : Resume(p, i))
        /\ WF_vars(\E h \in 1..Len(conns[p]) : ChannelOpens(p, h))
        /\ WF_vars(\E x \in Nodes : ChannelReceive(p, x))

SpecChat == Init /\ [][NextChat]_vars /\ FairChat

\* ================================================================ claims
\* The poll responses that can be handled next
PossibleBatches(p) ==
    {Batch(relay, p, [lastId |-> l, upTo |-> Len(relay)]) : l \in BagToSet(polls[p])}
    \cup {Batch(relay, p, r) : r \in BagToSet(replies[p])}

\* The handler's state when it reaches the k-th message of batch b
MidBatch(p, b, k) == HandleBatch(Local(p), SubSeq(b, 1, k - 1))

\* handling a message left the negotiation state alone
Unaffected(s, t) ==
    /\ s.pending = t.pending
    /\ s.peers = t.peers
    /\ s.conns = t.conns
    /\ s.tasks = t.tasks
    /\ s.log = t.log
    /\ s.ui = t.ui

InRelay(m) == \E i \in 1..Len(relay) : relay[i] = m

OfferSent(a, b) == InRelay(Msg("offer", a, b))

\* the handler of p was invoked for message m
Heard(p, m) == \E k \in 1..Len(delivered[p]) : relay[delivered[p][k] + 1] = m

\* no continuation of p for remote x is still suspended
Settled(p, x) == \A i \in 1..Len(tasks[p]) : tasks[p][i].from # x

\* C1: of two peers a > b that hear each other's discovery, b never sends an
\* offer to a, and a, once its handling of b's discovery has run to the end,
\* has sent an offer to b.
C1_TieBreak ==
    \A a \in Nodes, b \in Nodes :
        a > b =>
            /\ ~OfferSent(b, a)
            /\ (Heard(a, Msg("peer-discovery", b, Broadcast)) /\ Settled(a, b))
                  => OfferSent(a, b)

C1_Witness ==
    /\ Heard(2, Msg("peer-discovery", 1, Broadcast))
    /\ Heard(1, Msg("peer-discovery", 2, Broadcast))
    /\ Settled(2, 1)
    /\ OfferSent(2, 1)

\* C2: a connection that has not been closed is the one registered for its
\* peer, i.e. createPeerConnection never replaces a live registry entry.
C2_NoLiveOverwrite ==
    \A p \in Nodes : \A h \in 1..Len(conns[p]) :
        conns[p][h].sig # "closed" => peers[p][conns[p][h].peer] = h

\* C3: a peer-discovery from x handled while x is pending or has a registry
\* entry changes nothing: no connection, no continuation, no message.
C3_IdempotentDiscovery ==
    \A p \in Nodes : \A b \in PossibleBatches(p) : \A k \in 1..Len(b) :
        LET s == MidBatch(p, b, k)
            x == b[k].msg.from
        IN (b[k].msg.type = "peer-discovery"
              /\ (x \in s.pending \/ s.peers[x] # NoConn))
           => Unaffected(s, Deliver(s, b[k]))

\* C4: an answer from x handled while the connection for x (the registry's,
\* or the one the session looks up) is absent or not in have-local-offer is
\* ignored: no description is applied (no continuation), registry,
\* connections and pending set are unchanged.
StaleFor(s, x) ==
    \/ s.peers[x] = NoConn
    \/ s.conns[s.peers[x]].sig # "have-local-offer"
    \/ s.peersRef[x] = NoConn
    \/ s.conns[s.peersRef[x]].sig # "have-local-offer"

C4_StaleAnswerIgnored ==
    \A p \in Nodes : \A b \in PossibleBatches(p) : \A k \in 1..Len(b) :
        LET s == MidBatch(p, b, k)
        IN (b[k].msg.type = "answer" /\ StaleFor(s, b[k].msg.from))
           => Unaffected(s, Deliver(s, b[k]))

\* an offer and a later answer of remote 3 were both handled by the active
\* session, which holds an entry for 3 that never was in have-local-offer
C4_Witness ==
    /\ isActive[Me]
    /\ peers[Me][3] # NoConn
    /\ \E i \in 1..Len(delivered[Me]) : \E j \in (i + 1)..Len(delivered[Me]) :
          /\ relay[delivered[Me][i] + 1] = Msg("offer", 3, Me)
          /\ relay[delivered[Me][j] + 1] = Msg("answer", 3, Me)

\* the session of p has been closed: torn down, or cleanup() was called
SessionClosed(p) == epoch[p] > 0 /\ (~isActive[p] \/ isClosed[p])

\* C5: once the session is closed the registry and the observers' snapshot
\* never change again.
C5_PostTeardownSilence ==
    [][\A p \in Nodes :
         SessionClosed(p) => peers'[p] = peers[p] /\ uiPeers'[p] = uiPeers[p]]_vars

\* C6: an ended session has no discovery timer, a closed transport (poll timer
\* cancelled) and no open connection.
C6_TeardownComplete ==
    \A p \in Nodes :
        SessionClosed(p) =>
            /\ ~discoveryTimer[p]
            /\ isClosed[p]
            /\ \A h \in 1..Len(conns[p]) : conns[p][h].sig = "closed"

\* the closure that owns task t still has its active flag set
ClosureActive(p, t) == t.ep = epoch[p] /\ isActive[p]

\* C7: a continuation that completes after its session's active flag was
\* cleared sends no offer or answer and modifies neither pending set nor
\* registry.
C7_ActiveFlagCancels ==
    [][\A p \in Nodes : \A i \in 1..Len(tasks[p]) :
         (~ClosureActive(p, tasks[p][i]) /\ Resume(p, i))
            => /\ relay' = relay
               /\ pendingConnections' = pendingConnections
               /\ peers' = peers]_vars

SetMax(S) == CHOOSE m \in S : \A x \in S : m >= x

\* C8: the cursor never decreases, and handling a poll response leaves it at
\* the maximum of its previous value and the ids of that response.
C8_CursorMonotone ==
    [][\A p \in Nodes :
         /\ lastMessageId'[p] >= lastMessageId[p]
         /\ \A r \in BagToSet(replies[p]) :
               PollResponse(p, r) =>
                   LET b == Batch(relay, p, r)
                   IN lastMessageId'[p] =
                        SetMax({lastMessageId[p]} \cup {b[k].id : k \in 1..Len(b)})]_vars

\* a response fetched earlier was handled after a later one: the handler saw
\* a smaller id after a larger one, and the cursor is the largest id it saw
C8_Witness ==
    /\ \E i \in 1..Len(delivered[Me]) : \E j \in (i + 1)..Len(delivered[Me]) :
          delivered[Me][i] > delivered[Me][j]
    /\ lastMessageId[Me] = SetMax({delivered[Me][k] : k \in 1..Len(delivered[Me])})

\* C9: the handler is invoked at most once for each relay message id.
C9_DeliveredOnce ==
    \A p \in Nodes : \A i \in 1..Len(delivered[p]) : \A j \in 1..Len(delivered[p]) :
        delivered[p][i] = delivered[p][j] => i = j

\* the connection the session holds for x awaits an answer
AwaitsAnswer(s, x) ==
    /\ s.epoch > 0 /\ s.active
    /\ s.peersRef[x] # NoConn
    /\ s.conns[s.peersRef[x]].sig = "have-local-offer"

Handling(s) == s.epoch > 0 /\ s.active /\ ~s.closed

\* C11: an offer from x handled while the registry holds no entry for x
\* (also when an earlier entry was removed) creates a fresh connection,
\* registers it for x and starts applying the offer on it.
C11_OfferCreatesEntry ==
    \A p \in Nodes : \A b \in PossibleBatches(p) : \A k \in 1..Len(b) :
        LET s == MidBatch(p, b, k)
            x == b[k].msg.from
            t == Deliver(s, b[k])
            h == Len(s.conns) + 1
        IN (b[k].msg.type = "offer" /\ Handling(s) /\ s.peers[x] = NoConn)
           => /\ Len(t.conns) = h
              /\ t.peers[x] = h
              /\ t.tasks = Append(s.tasks, Task("setRemoteOffer", x, h, s.epoch))

\* p has posted an answer to x
Answered(s, x) == \E i \in 1..Len(s.log) : s.log[i] = Msg("answer", s.id, x)

\* a handler of p for an offer of x is suspended
HandlingOffer(s, x) ==
    \E i \in 1..Len(s.tasks) :
        /\ s.tasks[i].from = x
        /\ s.tasks[i].pc \in {"setRemoteOffer", "createAnswer", "setLocalAnswer"}

\* C12: an offer from x handled when an offer of x has been answered or is
\* being handled is ignored: no description is applied, nothing is sent.
C12_DuplicateOfferIgnored ==
    \A p \in Nodes : \A b \in PossibleBatches(p) : \A k \in 1..Len(b) :
        LET s == MidBatch(p, b, k)
            x == b[k].msg.from
        IN (b[k].msg.type = "offer" /\ (Answered(s, x) \/ HandlingOffer(s, x)))
           => Unaffected(s, Deliver(s, b[k]))

\* the entry of x was removed when its connection reported a terminal state
Removed(s, x) ==
    /\ s.peers[x] = NoConn
    /\ \E h \in 1..Len(s.conns) : s.conns[h].peer = x /\ s.conns[h].failed

\* the handler started a negotiation with x: new connection, offer under way
Initiates(s, t, x) ==
    LET h == Len(s.conns) + 1
    IN /\ Len(t.conns) = h
       /\ t.peers[x] = h
       /\ t.tasks = Append(s.tasks, Task("createOffer", x, h, s.epoch))

\* C13: after the entry of x was removed for a terminal connection state, a
\* peer-discovery from x handled by a peer with a larger id starts a new
\* negotiation.
C13_ReestablishAfterLoss ==
    \A p \in Nodes : \A b \in PossibleBatches(p) : \A k \in 1..Len(b) :
        LET s == MidBatch(p, b, k)
            x == b[k].msg.from
        IN (b[k].msg.type = "peer-discovery" /\ Handling(s) /\ s.id > x
              /\ Removed(s, x))
           => Initiates(s, Deliver(s, b[k]), x)

\* C15: when a connection of an active session reports failed, disconnected
\* or closed, afterwards the registry has no entry for its peer, the
\* connection is closed and the observer's snapshot is without the peer.
C15_TerminalStateRemoves ==
    [][\A p \in Nodes : \A h \in 1..Len(conns[p]) :
         (isActive[p] /\ ConnectionStateChange(p, h))
            => LET x == conns[p][h].peer
               IN /\ peers'[p][x] = NoConn
                  /\ conns'[p][h].sig = "closed"
                  /\ uiPeers'[p][x] = NoConn]_vars

\* C20: every change of the registry of an active session is followed by a
\* snapshot to the observer that equals the registry after the change.
C20_RegistryNotifies ==
    [][\A p \in Nodes :
         (isActive[p] /\ peers'[p] # peers[p]) => uiPeers'[p] = peers'[p]]_vars

\* C19: a peer in the pending set has no registry entry whose connection has
\* completed negotiation.
C19_PendingNotConnected ==
    \A p \in Nodes : \A x \in pendingConnections[p] :
        peers[p][x] # NoConn => ~Connected(conns[p][peers[p][x]])

\* the answer of 1 is being applied at 2 while 1 is still pending
C19_Witness ==
    /\ 1 \in pendingConnections[2]
    /\ peers[2][1] # NoConn
    /\ conns[2][peers[2][1]].sig = "have-local-offer"
    /\ \E i \in 1..Len(tasks[2]) : tasks[2][i].pc = "setRemoteAnswer"

\* a step of the negotiation with x was rejected and x has no usable
\* connection and no handler still working on it
NegotiationFailed(s, x) ==
    /\ \E h \in 1..Len(s.conns) : s.conns[h].peer = x /\ s.conns[h].error
    /\ \A h \in 1..Len(s.conns) : s.conns[h].peer = x => ~Connected(s.conns[h])
    /\ \A i \in 1..Len(s.tasks) : s.tasks[i].from # x

\* C14: after a step of the negotiation with x was rejected (offer creation,
\* or applying a remote description), a later peer-discovery from x handled
\* by a peer with a larger id starts a new negotiation.
C14_RecoverAfterError ==
    \A p \in Nodes : \A b \in PossibleBatches(p) : \A k \in 1..Len(b) :
        LET s == MidBatch(p, b, k)
            x == b[k].msg.from
        IN (b[k].msg.type = "peer-discovery" /\ Handling(s) /\ s.id > x
              /\ NegotiationFailed(s, x))
           => Initiates(s, Deliver(s, b[k]), x)

\* p has attached its offer for x and handed it to send()
OfferOwed(p, x) ==
    /\ peers[p][x] # NoConn
    /\ conns[p][peers[p][x]].sig = "have-local-offer"
    /\ conns[p][peers[p][x]].local

\* C17: an offer handed to send() eventually reaches the relay, also when the
\* relay could not be reached at the time of the send.
C17_SendRetried ==
    \A x \in Ids : OfferOwed(Me, x) ~> OfferSent(Me, x)

\* the relay messages a poll with cursor c has to deliver to p
Due(p, c) ==
    {MsgId(i) : i \in {j \in 1..Len(relay) :
                          MsgId(j) > c /\ relay[j].to \in {Broadcast, p}}}

\* C18: a failed poll (response not ok, or fetch rejected) changes nothing
\* but the set of requests in flight: cursor, handler invocations and
\* negotiation state stay; the next tick asks with the current cursor, and the
\* response to it hands every message above that cursor to the handler.
C18_FailedPollSwallowed ==
    [][\A p \in Nodes :
         /\ \A l \in BagToSet(polls[p]) :
               /\ (PollFail(p, l) \/ PollError(p, l))
                     => UNCHANGED <<relay, lastMessageId, delivered, isClosed,
                                    session, manager>>
               /\ (OnlinePollReturn(p, l) /\ epoch[p] > 0)
                     => \A id \in Due(p, l) :
                           \E k \in 1..Len(delivered'[p]) : delivered'[p][k] = id
         /\ SerialPollTick(p) => BagIn(lastMessageId[p], polls'[p])]_vars

\* a poll with cursor c was rejected during an outage, and a message above c
\* posted by remote 1 has been handed to the handler since
C18_Witness ==
    /\ online[Me]
    /\ outages[Me] > 0
    /\ \E c \in errorLog[Me] : \E k \in 1..Len(delivered[Me]) :
          /\ delivered[Me][k] > c
          /\ relay[delivered[Me][k] + 1].from = 1
          /\ lastMessageId[Me] >= delivered[Me][k]

\* offers posted by p
Offers(p) == {i \in 1..Len(relay) : relay[i].type = "offer" /\ relay[i].from = p}

\* chat messages from x with the text c that q's observer holds
ChatFrom(q, x, c) ==
    Cardinality({k \in 1..Len(messages[q]) :
                    /\ messages[q][k].peerId = x
                    /\ messages[q][k].content = c
                    /\ messages[q][k].kind = "text"})

\* both peers connected, the higher id being the only one that offered
Established ==
    /\ BothConnected
    /\ Offers(1) = {}
    /\ Offers(2) # {}
    /\ pendingConnections[2] = {}

\* C16: with fair scheduling and a relay that delivers, the two peers end up
\* connected with the higher id as the sole initiator and its pending set empty,
\* and every text peer 1 sends after that reaches peer 2's observer, once each.
C16_EndToEnd ==
    /\ <>[]Established
    /\ [](ChatFrom(2, 1, "hi") <= texts[1])
    /\ \A n \in 1..MaxTexts : (texts[1] >= n) ~> (ChatFrom(2, 1, "hi") >= n)

\* the ids the handler finds in its peersRef, and the ids the registry holds
KnownIds(p) == {x \in Ids : peersRef[p][x] # NoConn}

RegistryIds(p) == {x \in Ids : peers[p][x] # NoConn}

\* C21: for a session that is handling signals, the ids the handler treats as
\* having a peer are exactly the ids with a registry entry.
C21_ViewEqualsRegistry ==
    \A p \in Nodes : Handling(Local(p)) => KnownIds(p) = RegistryIds(p)

\* C22: removePeer(x) on an entry closes the entry's connection (and with it
\* the channel) and deletes the entry; on an id without an entry, in
\* particular right after a removal, it changes nothing and hands no snapshot
\* to the observer.
C22_RemoveIdempotent ==
    \A p \in Nodes : \A x \in Ids :
        LET s == Local(p)
            t == RemovePeer(s, x)
        IN /\ s.peers[x] # NoConn =>
                /\ t.peers[x] = NoConn
                /\ t.conns[s.peers[x]].sig = "closed"
                /\ ~ChannelOpen(t.conns[s.peers[x]])
                /\ \A y \in Ids \ {x} : t.peers[y] = s.peers[y]
           /\ s.peers[x] = NoConn => t = s
           /\ RemovePeer(t, x) = t

\* the entry of 1 has been removed in an active session whose observer holds a
\* snapshot that differs from the registry
C22_Witness ==
    /\ isActive[Me]
    /\ Removed(Local(Me), 1)
    /\ conns[Me][1].sig = "closed"
    /\ uiPeers[Me] # peers[Me]

\* the registry of p holds an entry for x whose channel reports open
HasOpenChannel(p, x) ==
    /\ peers[p][x] # NoConn
    /\ conns[p][peers[p][x]].open
    /\ conns[p][peers[p][x]].sig # "closed"

\* C23: sendMessage(c) in an active session hands exactly one message with
\* the local id and content c to the observer, puts one text envelope with
\* content c on the channel of every peer whose channel is open, and nothing on
\* any other channel.
C23_EchoAndFanOut ==
    [][\A c \in Texts, ts \in Times :
         (isActive[Me] /\ SendMessage(Me, c, ts))
            => /\ Len(messages'[Me]) = Len(messages[Me]) + 1
               /\ SubSeq(messages'[Me], 1, Len(messages[Me])) = messages[Me]
               /\ LET m == messages'[Me][Len(messages'[Me])]
                  IN m.peerId = Me /\ m.content = c /\ m.kind = "text"
               /\ \A x \in Ids :
                     IF HasOpenChannel(Me, x)
                     THEN /\ Len(wire'[x][Me]) = Len(wire[x][Me]) + 1
                          /\ SubSeq(wire'[x][Me], 1, Len(wire[x][Me])) = wire[x][Me]
                          /\ LET d == wire'[x][Me][Len(wire'[x][Me])]
                             IN /\ d.kind = "object"
                                /\ d.value.type = "text"
                                /\ d.value.content = c
                          /\ sends'[Me][x] = sends[Me][x] + 1
                     ELSE /\ wire'[x][Me] = wire[x][Me]
                          /\ sends'[Me][x] = sends[Me][x]]_vars

\* a text was sent while the channel to 3 was open and 1 was registered with a
\* channel that was not: one echo, one envelope for 3, none for 1
C23_Witness ==
    /\ isActive[Me]
    /\ texts[Me] = 1
    /\ Len(messages[Me]) = 1
    /\ messages[Me][1].peerId = Me
    /\ HasOpenChannel(Me, 3)
    /\ Len(wire[3][Me]) = 1
    /\ peers[Me][1] # NoConn
    /\ ~conns[Me][peers[Me][1]].open
    /\ wire[1][Me] = <<>>

\* C24: in an active session a text envelope received on the channel of x adds
\* exactly one chat message with peerId x, x's name, the envelope's content and
\* timestamp and kind text; a file-meta envelope adds exactly one file-transfer
\* record with the envelope's id, name and size, peerId x and progress 0.
C24_EnvelopeConversion ==
    [][\A x \in Remotes :
         (isActive[Me] /\ ChannelReceive(Me, x))
            => LET e == Head(wire[Me][x]).value
                   n == Len(messages[Me])
                   k == Len(fileTransfers[Me])
               IN /\ e.type = "text" =>
                       /\ fileTransfers'[Me] = fileTransfers[Me]
                       /\ Len(messages'[Me]) = n + 1
                       /\ SubSeq(messages'[Me], 1, n) = messages[Me]
                       /\ messages'[Me][n + 1] =
                             [peerId |-> x, peerName |-> NameOf(x), content |-> e.content,
                              timestamp |-> e.timestamp, kind |-> "text"]
                  /\ e.type = "file-meta" =>
                       /\ messages'[Me] = messages[Me]
                       /\ Len(fileTransfers'[Me]) = k + 1
                       /\ SubSeq(fileTransfers'[Me], 1, k) = fileTransfers[Me]
                       /\ fileTransfers'[Me][k + 1] =
                             [id |-> e.id, name |-> e.name, size |-> e.size, progress |-> 0,
                              peerId |-> x, peerName |-> NameOf(x)]]_vars

\* the active session has received a text stamped with the latest time and a
\* file announcement
C24_Witness ==
    /\ isActive[Me]
    /\ \E k \in 1..Len(messages[Me]) :
          messages[Me][k].peerId \in Remotes /\ messages[Me][k].timestamp = MaxTime
    /\ \E k \in 1..Len(fileTransfers[Me]) :
          fileTransfers[Me][k].peerId \in Remotes /\ fileTransfers[Me][k].progress = 0
    /\ wire[Me][1] = <<>>
    /\ wire[Me][3] = <<>>

DiscoveryOf(p) == Msg("peer-discovery", p, Broadcast)

\* the session of p has ended: its effect was torn down or cleanup() closed
\* the transport
SessionEnded(p) == ~isActive[p] \/ isClosed[p]

PostsOf(p) == Cardinality({i \in 1..Len(relay) : relay[i].from = p})

\* C27: once the transport of a peer is closed it stays closed, no step issues
\* a new poll request for it, no step posts a message of that peer, and a
\* further cleanup() leaves every field of the transport as it was.
C27_CloseIsFinal ==
    [][\A p \in Nodes :
          isClosed[p] =>
              /\ isClosed'[p]
              /\ polls'[p] \sqsubseteq polls[p]
              /\ PostsOf(p)' = PostsOf(p)
              /\ Cleanup(p) => UNCHANGED transport]_vars

\* closed, and a handler that was still running has stored its local offer,
\* whose send() posted nothing
C27_Witness ==
    /\ isClosed[Me]
    /\ \E h \in 1..Len(conns[Me]) : conns[Me][h].sig = "have-local-offer"
    /\ \A i \in 1..Len(relay) : relay[i].from = Me => relay[i].type = "peer-discovery"
    /\ polls[Me] = EmptyBag

\* ------------------------------------------------------------------ C28
\* C28: an ice-candidate from x handled while the registry holds a connection
\* for x is handed to that connection's addIceCandidate; handled while the
\* registry holds none it leaves the state of the peer as it was.
C28_CandidateIffConnection ==
    \A p \in Nodes : \A x \in Ids \ {p} :
        LET s == Local(p)
            t == OnSignal(s, Msg("ice-candidate", x, p))
        IN Handling(s) =>
              IF s.peers[x] # NoConn
              THEN t = Spawn(s, "addIceCandidate", x, s.peers[x])
              ELSE t = s

\* ------------------------------------------------------------------ C29
\* the message ids of a batch, in the order the relay returned them
IdsOf(batch) == [i \in 1..Len(batch) |-> batch[i].id]

\* C29: the step that handles a poll response invokes the handler once for
\* each message of the batch, in the order of the batch.
C29_InBatchOrder ==
    [][\A p \in Nodes : \A r \in BagToSet(replies[p]) :
          (PollResponse(p, r) /\ epoch[p] > 0)
              => delivered'[p] = delivered[p] \o IdsOf(Batch(relay, p, r))]_vars

\* two overlapping responses: the later one, fetched with the initial cursor,
\* carried three messages, which were handled in relay order in one step
C29_Witness ==
    /\ delivered[Me] = <<0, 1, 2, 0, 1, 2>>
    /\ replies[Me] = EmptyBag

\* ------------------------------------------------------------------ C30
\* the registry entry of x at p holds a connection created for x, and with it
\* that connection's channel
EntryComplete(cs, h, x) == h \in 1..Len(cs) /\ cs[h].peer = x

\* C30: every registry entry holds a connection and its channel; a step that
\* takes an entry out of the registry (removePeer, cleanup()) leaves the
\* entry's connection closed and its channel not open.
C30_HandlesTogether ==
    [][\A p \in Nodes : \A x \in Ids :
          /\ peers[p][x] # NoConn => EntryComplete(conns[p], peers[p][x], x)
          /\ peers'[p][x] # NoConn => EntryComplete(conns'[p], peers'[p][x], x)
          /\ (peers[p][x] # NoConn /\ peers'[p][x] = NoConn)
                => /\ conns'[p][peers[p][x]].sig = "closed"
                   /\ ~ChannelOpen(conns'[p][peers[p][x]])]_vars

\* cleanup() emptied a registry that held an entry whose channel had opened
C30_Witness ==
    /\ isClosed[Me]
    /\ peers[Me] = NoPeers
    /\ \E h \in 1..Len(conns[Me]) :
          /\ conns[Me][h].open
          /\ ~conns[Me][h].failed
          /\ conns[Me][h].sig = "closed"

\* ------------------------------------------------------------------ C31
\* C31: a step in which initLocalStream completes, setting or replacing the
\* local stream of a peer, is taken only while that peer's registry is empty.
C31_NoAcquireWhileAttached ==
    [][\A p \in Nodes :
          (MediaSettles(p) /\ Resolves(media[p], devices)) => RegistryIds(p) = {}]_vars

\* ------------------------------------------------------------------ C32
\* p has posted an offer, answer or candidate addressed to q
Negotiates(p, q) ==
    \E i \in 1..Len(relay) :
        /\ relay[i].from = p
        /\ relay[i].to = q
        /\ relay[i].type \in {"offer", "answer", "ice-candidate"}

\* C32: whatever rooms the sessions were started with, two peers in different
\* rooms hold no connection for each other and have posted no offer, answer or
\* candidate to each other.
C32_RoomIsolation ==
    \A room \in [Nodes -> Rooms] : \A p \in Nodes : \A q \in Nodes :
        room[p] # room[q] => peers[p][q] = NoConn /\ ~Negotiates(p, q)

\* ------------------------------------------------------------------ C33
\* C33: a step that moves the cursor of a peer forward is taken while a
\* handler is registered and its session is active, so that every message the
\* cursor passes was handed to that handler.
C33_NoSilentLoss ==
    [][\A p \in Nodes :
          lastMessageId'[p] > lastMessageId[p]
              => /\ epoch[p] > 0
                 /\ isActive[p]
                 /\ Len(delivered'[p]) > Len(delivered[p])]_vars

\* ------------------------------------------------------------------ C34
\* C34: a step that takes the entry of x out of the registry of p leaves x
\* outside the pending set of p.
C34_PendingFollowsRegistry ==
    [][\A p \in Nodes : \A x \in Ids :
          (peers[p][x] # NoConn /\ peers'[p][x] = NoConn)
              => x \notin pendingConnections'[p]]_vars

\* ------------------------------------------------------------------ C35
\* setRemoteDescription(answer) calls on connection h of p that have not settled
AnswersInProgress(p, h) ==
    Cardinality({i \in 1..Len(tasks[p]) :
                    tasks[p][i].pc = "setRemoteAnswer" /\ tasks[p][i].conn = h})

\* C35: no connection has two setRemoteDescription(answer) calls under way;
\* as a call is made only in have-local-offer and its completion leaves that
\* state, this is the same as at most one call per local offer.
C35_AnswerOnce ==
    \A p \in Nodes : \A h \in 1..Len(conns[p]) : AnswersInProgress(p, h) <= 1

\* ------------------------------------------------------------------ C36
\* the step hands an offer from x to the handler of p's active session
HandlesOfferFrom(p, x) ==
    /\ isActive[p]
    /\ \E k \in (Len(delivered[p]) + 1)..Len(delivered'[p]) :
          /\ relay'[delivered'[p][k] + 1].type = "offer"
          /\ relay'[delivered'[p][k] + 1].from = x

\* p holds a connection for x whose local offer is waiting for its answer
LocalOfferTo(p, x) ==
    \E h \in 1..Len(conns[p]) :
        conns[p][h].peer = x /\ conns[p][h].sig = "have-local-offer"

\* C36: among peers running this code no offer from x is handed to the
\* handler of a peer whose connection for x is in have-local-offer, and a
\* pending set holds only ids below the peer's own.
C36_NoGlare ==
    [][\A p \in Nodes :
          /\ \A x \in Ids \ {p} : HandlesOfferFrom(p, x) => ~LocalOfferTo(p, x)
          /\ \A x \in pendingConnections'[p] : x < p]_vars

\* peer 1 was handed the offer of peer 2, whose connection for 1 waits for the
\* answer with 1 pending
C36_Witness ==
    /\ \E k \in 1..Len(delivered[1]) :
          /\ relay[delivered[1][k] + 1].type = "offer"
          /\ relay[delivered[1][k] + 1].from = 2
    /\ LocalOfferTo(2, 1)
    /\ pendingConnections[2] = {1}
    /\ pendingConnections[1] = {}

\* ------------------------------------------------------------------ C37
\* C37: a step in which a connection of an active session with an open
\* transport gathers a candidate posts that candidate, addressed to the
\* connection's peer, as an ice-candidate.
C37_CandidatesForwarded ==
    [][\A p \in Nodes : \A h \in 1..Len(conns[p]) :
          (isActive[p] /\ ~isClosed[p] /\ conns'[p][h].gathered > conns[p][h].gathered)
              => relay' = Append(relay, Msg("ice-candidate", p, conns[p][h].peer))]_vars

\* ------------------------------------------------------------------ C38
\* the handler of p's active session has been handed p's own broadcast
HeardItself(p) ==
    /\ isActive[p]
    /\ \E k \in 1..Len(delivered[p]) :
          relay[delivered[p][k] + 1] = Msg("peer-discovery", p, Broadcast)

\* C38: a peer holds no registry entry and no connection for its own id, does
\* not have its own id pending and has posted no offer to itself, although
\* the relay returns its own broadcasts to it.
C38_NoSelfNegotiation ==
    \A p \in Nodes :
        /\ peers[p][p] = NoConn
        /\ peersRef[p][p] = NoConn
        /\ \A h \in 1..Len(conns[p]) : conns[p][h].peer # p
        /\ p \notin pendingConnections[p]
        /\ \A i \in 1..Len(relay) : ~(relay[i].from = p /\ relay[i].to = p)

\* both peers were handed their own broadcast, peer 2 twice
C38_Witness ==
    /\ HeardItself(1)
    /\ HeardItself(2)
    /\ Cardinality({k \in 1..Len(delivered[2]) :
                       relay[delivered[2][k] + 1] = Msg("peer-discovery", 2, Broadcast)}) >= 2

\* ------------------------------------------------------------------ C39
\* a payload that is not JSON, or whose type is neither text nor file-meta
Inert(d) == d.kind # "object" \/ d.value.type \notin {"text", "file-meta"}

\* C39: receiving such a payload takes it off the channel and changes nothing
\* else: no message, no file transfer, no snapshot, no registry or connection
\* change.
C39_MalformedInert ==
    [][\A x \in Remotes :
          (ChannelReceive(Me, x) /\ Inert(Head(wire[Me][x])))
              => UNCHANGED <<messages, fileTransfers, uiPeers, peers, conns, tasks,
                             transport, session, texts, sends, media, devices>>]_vars

\* an active session has taken every payload off the channel of 3, and none of
\* them reached an observer
C39_Witness ==
    /\ isActive[Me]
    /\ HasOpenChannel(Me, 3)
    /\ sends[3][Me] = MaxEnvelopes
    /\ wire[Me][3] = <<>>
    /\ messages[Me] = <<>>
    /\ fileTransfers[Me] = <<>>

====
